---- MODULE Spec2Model ----
(***************************************************************************)
(* Model of the aloy-engine event core: the event envelope, the process-   *)
(* wide EventQueue (mpsc channel + try_lock'ed receiver), the per-name     *)
(* EventDispatcher (handler list behind a try_lock retry loop) and the     *)
(* Application tick loop with its exit protocol.                           *)
(***************************************************************************)
EXTENDS Integers, Sequences, FiniteSets, TLC

\* ------------------------------------------------------------------------
\* Bounds of the model
\* ------------------------------------------------------------------------
MaxEmits == 2
MaxHandlers == 3
MaxInvoked == 6

Producers == {"p1", "p2"}
\* threads that call get_events: the tick thread and one more consumer
Consumers == {"app", "aux"}

\* ------------------------------------------------------------------------
\* Events (event.rs, application_events.rs)
\* ------------------------------------------------------------------------
None == <<>>
Some(v) == <<v>>

NORMAL == [tag |-> "NORMAL", code |-> 0]
ERROR(code) == [tag |-> "ERROR", code |-> code]

\* the inhabited variants of ApplicationEvents, as [kind, args]
Exit(r) == [kind |-> "Exit", args |-> <<r>>]
ExampleEvent == [kind |-> "ExampleEvent", args |-> <<>>]
ExampleEventWithData(x, y) == [kind |-> "ExampleEventWithData", args |-> <<x, y>>]

\* the TestEvent { name } of the test modules
TestEvent(name) == [kind |-> "TestEvent", args |-> <<name>>]

\* Event::get_name, for ApplicationEvents and for TestEvent
get_name(e) ==
    CASE e.kind = "ExampleEvent" -> "ExampleEvent"
      [] e.kind = "ExampleEventWithData" -> "ExampleEventWithData"
      [] e.kind = "Exit" -> "Exit"
      [] e.kind = "TestEvent" -> e.args[1]

\* DynamicStore: the boxed value with its concrete type
DynamicStore(type, value) == [type |-> type, value |-> value]

\* mutant: the box is read as a T whatever it holds
get_ref_unchecked(store, T) == Some(store.value)

\* DynamicStore::get_ref::<T>()
get_ref(store, T) == IF store.type = T THEN Some(store.value) ELSE None

\* Event::get_data, for ApplicationEvents and for TestEvent
get_data(e) ==
    CASE e.kind = "ExampleEventWithData" -> Some(DynamicStore("Vec<i128>", e.args))
      [] e.kind = "Exit" -> Some(DynamicStore("ExitReason", e.args[1]))
      [] OTHER -> None

\* what the producers of each specification emit
QueueEvents == {TestEvent("Event 1")}
AppEvents == {ExampleEvent, Exit(NORMAL), Exit(ERROR(42))}

\* a boxed event in flight: the event plus the identity of the box
\* (src = emitting producer, seq = position in that producer's emissions)
Boxed(e, p, n) == [kind |-> e.kind, args |-> e.args, src |-> p, seq |-> n]

\* ------------------------------------------------------------------------
\* State
\* ------------------------------------------------------------------------
VARIABLES
    channel,      \* contents of the mpsc channel, oldest first
    sender_live,  \* TRUE iff EventQueue.sender's channel still has its Receiver
    reciever,     \* holder of the Mutex around the Receiver, or "free"
    emitted,      \* per producer: the events it sent successfully, in order
    prod,         \* per producer: number of emit calls and the last result
    gq,           \* per consumer: position inside get_events and its result
    delivered,    \* every event returned by a successful get_events, in order
    dispatchers,  \* the EventDispatcher instances: event_name, handlers, lock holder
    dc,           \* the add_handlers / dispatch call in progress and its locals
    counter,      \* the AtomicU8 the test callbacks add to
    invoked,      \* every handler invocation so far, in order
    exit_flag,    \* Application.exit_flag: the Option<ExitReason> and its lock holder
    app,          \* the thread inside Application::run: position and locals
    exit_status,  \* None while the process lives, Some(status) once exit() was called
    since_set,    \* tick starts seen since the exit handler last stored a reason
    offered,      \* every dispatcher.dispatch(event) the Application made, with its result
    store,        \* a DynamicStore under test
    got,          \* for each type, whether get_ref was called for it on store and the result
    holds,        \* how many times a mutex of the Application was taken from outside
    left          \* for each consumer, the channel as its last failed get_events left it

qvars == <<channel, sender_live, reciever, emitted, prod, gq, delivered>>
dvars == <<dispatchers, dc, counter, invoked, exit_flag>>
pvars == <<store, got, holds, left>>
avars == <<app, exit_status, since_set, offered, pvars>>

vars == <<qvars, dvars, avars>>

\* ------------------------------------------------------------------------
\* EventQueue (event_queue.rs)
\* ------------------------------------------------------------------------
Ok(v) == [tag |-> "Ok", val |-> v]
UnableToEmitToEventQueue(e) == [tag |-> "UnableToEmitToEventQueue", val |-> <<e>>]
UnableToFetchEventsFromQueue == [tag |-> "UnableToFetchEventsFromQueue", val |-> <<>>]
EmptyQueue == [tag |-> "EmptyQueue", val |-> <<>>]
NoResult == [tag |-> "none", val |-> <<>>]

\* the number of events sent successfully so far by the producers in ps
RECURSIVE Sent(_)
Sent(ps) ==
    IF ps = {} THEN 0
    ELSE LET p == CHOOSE q \in ps : TRUE IN Len(emitted[p]) + Sent(ps \ {p})

TotalSent == Sent(Producers)

\* faulty variant of send: the event is queued although no Receiver is left
send_always(ch, live, ev) == Ok(Append(ch, ev))

\* mpsc Sender::send: fails iff the Receiver of its channel is gone
send(ch, live, ev) == IF live THEN Ok(Append(ch, ev)) ELSE [tag |-> "SendError", val |-> <<ev>>]

\* EventQueue::new
QInit ==
    /\ channel = <<>>
    /\ sender_live = TRUE
    /\ reciever = "free"
    /\ emitted = [p \in Producers |-> <<>>]
    /\ prod = [p \in Producers |-> [calls |-> 0, res |-> NoResult]]
    /\ gq = [c \in Consumers |-> [pc |-> "idle", events |-> <<>>, res |-> NoResult,
                                   sent0 |-> 0]]
    /\ delivered = <<>>

\* EventQueue::emit, called by producer thread p with event e
emit(p, e) ==
    /\ prod[p].calls < MaxEmits
    /\ LET ev == Boxed(e, p, prod[p].calls + 1)
           r == send(channel, sender_live, ev)
       IN IF r.tag = "Ok"
          THEN /\ channel' = r.val
               /\ emitted' = [emitted EXCEPT ![p] = Append(@, ev)]
               /\ prod' = [prod EXCEPT ![p] = [calls |-> @.calls + 1, res |-> Ok(<<>>)]]
          ELSE /\ prod' = [prod EXCEPT ![p] =
                              [calls |-> @.calls + 1, res |-> UnableToEmitToEventQueue(r.val[1])]]
               /\ UNCHANGED <<channel, emitted>>
    /\ UNCHANGED <<sender_live, reciever, gq, delivered>>

\* faulty variant of try_lock: the lock is taken whoever holds it
try_lock_unchecked(holder) == TRUE

\* Mutex::try_lock: succeeds iff nobody holds the lock
try_lock(holder) == holder = "free"

\* mutant: a call that fails on the lock discards the oldest pending event
get_events_try_lock_discards(c) ==
    /\ gq[c].pc = "idle"
    /\ IF try_lock(reciever)
       THEN /\ reciever' = c
            /\ gq' = [gq EXCEPT ![c] = [pc |-> "recv", events |-> <<>>, res |-> NoResult,
                                        sent0 |-> TotalSent]]
            /\ UNCHANGED channel
       ELSE /\ gq' = [gq EXCEPT ![c] = [pc |-> "idle", events |-> <<>>,
                                        res |-> UnableToFetchEventsFromQueue,
                                        sent0 |-> TotalSent]]
            /\ channel' = IF channel = <<>> THEN channel ELSE Tail(channel)
            /\ UNCHANGED reciever
    /\ UNCHANGED <<sender_live, emitted, prod, delivered>>

\* EventQueue::get_events, first step: Vec::new() and the single try_lock
get_events_try_lock(c) ==
    /\ gq[c].pc = "idle"
    /\ IF try_lock(reciever)
       THEN /\ reciever' = c
            /\ gq' = [gq EXCEPT ![c] = [pc |-> "recv", events |-> <<>>, res |-> NoResult,
                                        sent0 |-> TotalSent]]
       ELSE /\ gq' = [gq EXCEPT ![c] = [pc |-> "idle", events |-> <<>>,
                                        res |-> UnableToFetchEventsFromQueue,
                                        sent0 |-> TotalSent]]
            /\ UNCHANGED reciever
    /\ UNCHANGED <<channel, sender_live, emitted, prod, delivered>>

\* get_events called by one of the queue's consumers, with what a failed call
\* left in the channel noted
queue_get_events(c) ==
    /\ get_events_try_lock(c)
    /\ left' = IF gq'[c].res = UnableToFetchEventsFromQueue
               THEN [left EXCEPT ![c] = channel']
               ELSE left

\* faulty variant of push: the event is inserted at the front
push_front(events, event) == <<event>> \o events

\* `events.push(event)`
push(events, event) == Append(events, event)

\* faulty variant of get_events_result: the is_empty test is missing
get_events_result_unchecked(events) == Ok(events)

\* mutant: the Vec of drained events is kept across calls and never cleared
get_events_result_kept(events) ==
    IF delivered \o events = <<>> THEN EmptyQueue ELSE Ok(delivered \o events)

\* the end of the Ok arm of get_events: EmptyQueue instead of an empty Vec
get_events_result(events) == IF events = <<>> THEN EmptyQueue ELSE Ok(events)

\* EventQueue::get_events, one iteration of `while let Ok(event) = try_recv()`,
\* and on Err(Empty) the is_empty test, the return and the drop of the guard
get_events_try_recv(c) ==
    /\ gq[c].pc = "recv"
    /\ IF channel # <<>>
       THEN /\ channel' = Tail(channel)
            /\ gq' = [gq EXCEPT ![c].events = push(@, Head(channel))]
            /\ UNCHANGED <<reciever, delivered>>
       ELSE /\ reciever' = "free"
            /\ LET res == get_events_result(gq[c].events)
               IN /\ gq' = [gq EXCEPT ![c].pc = "idle", ![c].res = res, ![c].events = <<>>]
                  /\ delivered' = delivered \o res.val
            /\ UNCHANGED channel
    /\ UNCHANGED <<sender_live, emitted, prod>>

\* test_get_events_event_failure: the receiver lock taken from outside
lock_reciever ==
    /\ reciever = "free"
    /\ reciever' = "ext"
    /\ UNCHANGED <<channel, sender_live, emitted, prod, gq, delivered>>

unlock_reciever ==
    /\ reciever = "ext"
    /\ reciever' = "free"
    /\ UNCHANGED <<channel, sender_live, emitted, prod, gq, delivered>>

\* test_emit_event_failure: the sender replaced by one whose Receiver was dropped
replace_sender ==
    /\ sender_live
    /\ sender_live' = FALSE
    /\ UNCHANGED <<channel, reciever, emitted, prod, gq, delivered>>

\* ------------------------------------------------------------------------
\* EventDispatcher (event_dispatcher.rs)
\* ------------------------------------------------------------------------
UnableToAddHandler == [tag |-> "UnableToAddHandler", val |-> <<>>]

\* the callbacks of the tests: counter.fetch_add(k)
cb_add(k) == [kind |-> "fetch_add", k |-> k]
\* the closure Application::initalize registers on "Exit"
cb_exit == [kind |-> "exit_handler", k |-> 0]

TestCallbacks == {cb_add(k) : k \in 1..3}
TestNames == {"Test Event"}
TestEvents == {TestEvent("Test Event"), TestEvent("Some other event")}

\* EventDispatcher::new
new(event_name) == [event_name |-> event_name, handlers |-> <<>>, lock |-> "free"]

\* the retry limit of the try_lock loops: `if counter == 4`
RetryLimit == 4

\* the locals of a call: op is the position (idle between calls), last the
\* method called, d the dispatcher, cb / ev the argument, counter the retry
\* counter, snap and i the cloned handler list and the position in it, res the
\* value returned; attempts counts the try_lock calls made, h0 and inv0 are the
\* handler list and the number of invocations when the call began
Idle(res) == [op |-> "idle", last |-> "none", d |-> 0, cb |-> cb_add(0), ev |-> <<>>,
              counter |-> 0, attempts |-> 0, snap |-> <<>>, i |-> 0, res |-> res,
              h0 |-> <<>>, inv0 |-> 0]

\* what a call leaves behind when it returns res
Return(call, res) == [Idle(res) EXCEPT !.last = call.last, !.d = call.d, !.cb = call.cb,
                                       !.ev = call.ev, !.attempts = call.attempts,
                                       !.h0 = call.h0, !.inv0 = call.inv0]

\* faulty variant of exhausted: gives up one attempt early
exhausted_early(c) == c = RetryLimit - 1

\* `if counter == 4`: the retries are used up
exhausted(c) == c = RetryLimit

\* faulty variant of name_matches: the name test is missing
name_matches_any(dispatcher, ev) == TRUE

\* `event_name != event.get_name()` negated
name_matches(dispatcher, ev) == dispatcher.event_name = get_name(ev)

\* faulty variant of handler_at: the list is walked from its end
handler_at_reversed(snap, i) == snap[Len(snap) + 1 - i]

\* the handler for_each hands out at step i of the cloned list
handler_at(snap, i) == snap[i]

DInit ==
    /\ dispatchers = <<>>
    /\ dc = Idle(NoResult)
    /\ counter = 0
    /\ invoked = <<>>
    /\ exit_flag = [val |-> None, lock |-> "free"]

\* the test's `EventDispatcher::new(test_event.get_name())`
new_dispatcher(name) ==
    /\ dc.op = "idle"
    /\ dispatchers = <<>>
    /\ dispatchers' = <<new(name)>>
    /\ UNCHANGED <<dc, counter, invoked, exit_flag>>

\* EventDispatcher::add_handlers up to the loop: counter = 0
add_handlers_call(d, cb) ==
    /\ dc.op = "idle"
    /\ d \in DOMAIN dispatchers
    /\ Len(dispatchers[d].handlers) < MaxHandlers
    /\ dc' = [Idle(NoResult) EXCEPT !.op = "add_handlers", !.last = "add_handlers",
                                    !.d = d, !.cb = cb,
                                    !.h0 = dispatchers[d].handlers, !.inv0 = Len(invoked)]
    /\ UNCHANGED <<dispatchers, counter, invoked, exit_flag>>

\* one iteration of the loop of add_handlers
add_handlers_try_lock ==
    /\ dc.op = "add_handlers"
    /\ IF try_lock(dispatchers[dc.d].lock)
       THEN /\ dispatchers' = [dispatchers EXCEPT ![dc.d].handlers = Append(@, dc.cb)]
            /\ dc' = Return([dc EXCEPT !.attempts = @ + 1], Ok(<<>>))
       ELSE /\ IF exhausted(dc.counter)
               THEN dc' = Return([dc EXCEPT !.attempts = @ + 1], UnableToAddHandler)
               ELSE dc' = [dc EXCEPT !.counter = @ + 1, !.attempts = @ + 1]
            /\ UNCHANGED dispatchers
    /\ UNCHANGED <<counter, invoked, exit_flag>>

\* EventDispatcher::dispatch up to the loop: the name test, counter = 0
dispatch_call(d, ev) ==
    /\ dc.op = "idle"
    /\ d \in DOMAIN dispatchers
    /\ LET call == [Idle(NoResult) EXCEPT !.op = "dispatch", !.last = "dispatch",
                                          !.d = d, !.ev = <<ev>>,
                                          !.h0 = dispatchers[d].handlers,
                                          !.inv0 = Len(invoked)]
       IN IF ~name_matches(dispatchers[d], ev)
          THEN dc' = Return(call, Ok(<<FALSE>>))
          ELSE dc' = call
    /\ UNCHANGED <<dispatchers, counter, invoked, exit_flag>>

\* mutant: when the retries run out the event is dropped as if unmatched
dispatch_try_lock_silent ==
    /\ dc.op = "dispatch"
    /\ IF try_lock(dispatchers[dc.d].lock)
       THEN /\ dispatchers' = [dispatchers EXCEPT ![dc.d].lock = "caller"]
            /\ dc' = [dc EXCEPT !.op = "for_each", !.snap = dispatchers[dc.d].handlers,
                                 !.i = 1, !.attempts = @ + 1]
       ELSE /\ IF exhausted(dc.counter)
               THEN dc' = Return([dc EXCEPT !.attempts = @ + 1], Ok(<<FALSE>>))
               ELSE dc' = [dc EXCEPT !.counter = @ + 1, !.attempts = @ + 1]
            /\ UNCHANGED dispatchers
    /\ UNCHANGED <<counter, invoked, exit_flag>>

\* one iteration of the loop of dispatch: on success the guard is kept and the
\* handler list cloned
dispatch_try_lock ==
    /\ dc.op = "dispatch"
    /\ IF try_lock(dispatchers[dc.d].lock)
       THEN /\ dispatchers' = [dispatchers EXCEPT ![dc.d].lock = "caller"]
            /\ dc' = [dc EXCEPT !.op = "for_each", !.snap = dispatchers[dc.d].handlers,
                                 !.i = 1, !.attempts = @ + 1]
       ELSE /\ IF exhausted(dc.counter)
               THEN dc' = Return([dc EXCEPT !.attempts = @ + 1], UnableToAddHandler)
               ELSE dc' = [dc EXCEPT !.counter = @ + 1, !.attempts = @ + 1]
            /\ UNCHANGED dispatchers
    /\ UNCHANGED <<counter, invoked, exit_flag>>

\* the effect of a test callback: AtomicU8::fetch_add wraps
fetch_add(c, k) == (c + k) % 256

\* faulty variant of exit_handler: a reason already stored is kept
exit_handler_keep_first(flag, ev) ==
    LET exit == get_ref(get_data(ev)[1], "ExitReason")
    IN IF exit # None /\ try_lock(flag.lock) /\ flag.val = None
       THEN [flag EXCEPT !.val = Some(exit[1])]
       ELSE flag

\* mutant: the handler asks the payload for the wrong type
exit_handler_wrong_type(flag, ev) ==
    LET exit == get_ref(get_data(ev)[1], "i32")
    IN IF exit # None /\ try_lock(flag.lock)
       THEN [flag EXCEPT !.val = Some(exit[1])]
       ELSE flag

\* mutant: the handler stores the reason whether or not it got the lock
exit_handler_ignores_lock(flag, ev) ==
    LET exit == get_ref(get_data(ev)[1], "ExitReason")
    IN IF exit # None
       THEN [flag EXCEPT !.val = Some(exit[1])]
       ELSE flag

\* the closure of Application::initalize applied to event ev: the new exit_flag.
\* (get_data().unwrap() panics on an event without data; every event named
\* "Exit" is ApplicationEvents::Exit, which has data.)
exit_handler(flag, ev) ==
    LET exit == get_ref(get_data(ev)[1], "ExitReason")
    IN IF exit # None /\ try_lock(flag.lock)
       THEN [flag EXCEPT !.val = Some(exit[1])]
       ELSE flag

\* `handler(event)` for the next handler of the cloned list
dispatch_invoke ==
    /\ dc.op = "for_each"
    /\ dc.i <= Len(dc.snap)
    /\ LET handler == handler_at(dc.snap, dc.i)
           event == dc.ev[1]
       IN /\ IF handler.kind = "exit_handler"
             THEN /\ exit_flag' = exit_handler(exit_flag, event)
                  /\ UNCHANGED counter
             ELSE /\ counter' = fetch_add(counter, handler.k)
                  /\ UNCHANGED exit_flag
          /\ invoked' = Append(invoked, [d |-> dc.d, h |-> dc.i, cb |-> handler, ev |-> event])
    /\ dc' = [dc EXCEPT !.i = @ + 1]
    /\ UNCHANGED dispatchers

\* `return Ok(true)`: the guard is dropped
dispatch_return ==
    /\ dc.op = "for_each"
    /\ dc.i > Len(dc.snap)
    /\ dispatchers' = [dispatchers EXCEPT ![dc.d].lock = "free"]
    /\ dc' = Return(dc, Ok(<<TRUE>>))
    /\ UNCHANGED <<counter, invoked, exit_flag>>

\* test_handler_lock_failure: the handler list locked from outside
lock_handlers(d) ==
    /\ d \in DOMAIN dispatchers
    /\ dispatchers[d].lock = "free"
    /\ dispatchers' = [dispatchers EXCEPT ![d].lock = "ext"]
    /\ UNCHANGED <<dc, counter, invoked, exit_flag>>

unlock_handlers(d) ==
    /\ d \in DOMAIN dispatchers
    /\ dispatchers[d].lock = "ext"
    /\ dispatchers' = [dispatchers EXCEPT ![d].lock = "free"]
    /\ UNCHANGED <<dc, counter, invoked, exit_flag>>

\* ------------------------------------------------------------------------
\* Application (applications.rs)
\* ------------------------------------------------------------------------
MaxRegistrations == 2
AppProducers == {"p1"}
AppNames == {"ExampleEvent", "Exit"}
UserCallbacks == {cb_add(1)}

\* Application::default()
AInit ==
    /\ app = [pc |-> "setup", events |-> <<>>, ei |-> 0, di |-> 0, off0 |-> 0]
    /\ exit_status = None
    /\ since_set = 0
    /\ offered = <<>>

\* mutant: a registration for a name that already has a dispatcher adds the
\* handler to that dispatcher
on_event_merged(ds, event_name, cb) ==
    IF \E d \in DOMAIN ds : ds[d].event_name = event_name
    THEN LET d == CHOOSE d \in DOMAIN ds : ds[d].event_name = event_name
         IN [ds EXCEPT ![d].handlers = Append(@, cb)]
    ELSE Append(ds, [new(event_name) EXCEPT !.handlers = Append(@, cb)])

\* Application::on_event: a new dispatcher, add_handlers on it, push.
\* The new dispatcher is local, so the first try_lock of add_handlers succeeds.
on_event(ds, event_name, cb) ==
    LET dispatcher == new(event_name)
    IN IF try_lock(dispatcher.lock)
       THEN Append(ds, [dispatcher EXCEPT !.handlers = Append(@, cb)])
       ELSE ds

\* a registration made before run()
register(event_name, cb) ==
    /\ app.pc = "setup"
    /\ Len(dispatchers) < MaxRegistrations
    /\ dispatchers' = on_event(dispatchers, event_name, cb)
    /\ UNCHANGED <<dc, counter, invoked, exit_flag, app, exit_status, since_set, offered, pvars>>

\* Application::run up to the loop: Application::initalize
initalize ==
    /\ app.pc = "setup"
    /\ dispatchers' = on_event(dispatchers, "Exit", cb_exit)
    /\ app' = [app EXCEPT !.pc = "get_events"]
    /\ UNCHANGED <<dc, counter, invoked, exit_flag, exit_status, since_set, offered, pvars>>

\* mutant: a failed fetch ends the loop
run_match_fetch_error_fatal(res) ==
    IF res.tag = "Ok"
    THEN [pc |-> "fanout", events |-> res.val, ei |-> 1, di |-> 1, off0 |-> Len(offered)]
    ELSE IF res.tag = "EmptyQueue"
    THEN [pc |-> "exit_check", events |-> <<>>, ei |-> 0, di |-> 0, off0 |-> Len(offered)]
    ELSE [pc |-> "terminated", events |-> <<>>, ei |-> 0, di |-> 0, off0 |-> Len(offered)]

\* the arm of `match event_loop.get_events()` taken for result res
run_match(res) ==
    IF res.tag = "Ok"
    THEN [pc |-> "fanout", events |-> res.val, ei |-> 1, di |-> 1, off0 |-> Len(offered)]
    ELSE [pc |-> "exit_check", events |-> <<>>, ei |-> 0, di |-> 0, off0 |-> Len(offered)]

\* top of the loop: the call of get_events, up to its try_lock
run_get_events ==
    /\ app.pc = "get_events"
    /\ get_events_try_lock("app")
    /\ app' = IF gq'["app"].pc = "recv" THEN [app EXCEPT !.pc = "drain"]
                                        ELSE run_match(gq'["app"].res)
    /\ since_set' = IF exit_flag.val # None /\ since_set < 2 THEN since_set + 1
                                                              ELSE since_set
    /\ UNCHANGED <<dvars, exit_status, offered, pvars>>

\* get_events continued, and the match on its result once it returns
run_drain ==
    /\ app.pc = "drain"
    /\ get_events_try_recv("app")
    /\ app' = IF gq'["app"].pc = "idle" THEN run_match(gq'["app"].res) ELSE app
    /\ UNCHANGED <<dvars, exit_status, since_set, offered, pvars>>

\* what `if let Err(err) = dispatcher.dispatch(event)` sees of call c: nothing
\* while it runs, then "Ok" or "Err"
outcome(c) ==
    IF c.op # "idle" THEN "pending"
    ELSE IF c.res = UnableToAddHandler THEN "Err" ELSE "Ok"

\* mutant: an error of one dispatcher ends Application::dispatch for the event
run_dispatch_stop_on_error ==
    /\ app.pc = "fanout"
    /\ app.ei <= Len(app.events)
    /\ IF /\ app.di > 1
          /\ Len(offered) > app.off0
          /\ offered[Len(offered)].res = "Err"
       THEN /\ dc.op = "idle"
            /\ app' = [app EXCEPT !.ei = @ + 1, !.di = 1]
            /\ UNCHANGED <<dvars, offered>>
       ELSE /\ dispatch_call(app.di, app.events[app.ei])
            /\ app' = IF app.di < Len(dispatchers)
                      THEN [app EXCEPT !.di = @ + 1]
                      ELSE [app EXCEPT !.ei = @ + 1, !.di = 1]
            /\ offered' = Append(offered, [ev |-> app.events[app.ei], d |-> app.di,
                                           res |-> outcome(dc')])
    /\ UNCHANGED <<qvars, exit_status, since_set, pvars>>

\* `for event in events` x Application::dispatch's `for dispatcher in
\* &self.dispatchers`: the next dispatcher.dispatch(event)
run_dispatch ==
    /\ app.pc = "fanout"
    /\ app.ei <= Len(app.events)
    /\ dispatch_call(app.di, app.events[app.ei])
    /\ app' = IF app.di < Len(dispatchers)
              THEN [app EXCEPT !.di = @ + 1]
              ELSE [app EXCEPT !.ei = @ + 1, !.di = 1]
    /\ offered' = Append(offered, [ev |-> app.events[app.ei], d |-> app.di,
                                   res |-> outcome(dc')])
    /\ UNCHANGED <<qvars, exit_status, since_set, pvars>>

\* Application::dispatch waiting for dispatcher.dispatch(event): the retry loop
run_dispatch_try_lock ==
    /\ dispatch_try_lock
    /\ offered' = [offered EXCEPT ![Len(offered)].res = outcome(dc')]
    /\ UNCHANGED <<qvars, app, exit_status, since_set, pvars>>

\* Application::dispatch waiting for dispatcher.dispatch(event): a handler runs
run_dispatch_invoke ==
    /\ dispatch_invoke
    /\ UNCHANGED <<qvars, avars>>

\* Application::dispatch gets the result of dispatcher.dispatch(event)
run_dispatch_return ==
    /\ dispatch_return
    /\ offered' = [offered EXCEPT ![Len(offered)].res = outcome(dc')]
    /\ UNCHANGED <<qvars, app, exit_status, since_set, pvars>>

\* faulty variant of run_fanout_done: the loop restarts without the exit check
run_fanout_done_skip_check ==
    /\ app.pc = "fanout"
    /\ dc.op = "idle"
    /\ app.ei > Len(app.events)
    /\ app' = [app EXCEPT !.pc = "get_events"]
    /\ UNCHANGED <<qvars, dvars, exit_status, since_set, offered, pvars>>

\* mutant: the exit check is made after each event of the batch, and ends the
\* for loop when the signal is set
run_fanout_done_at_first_exit ==
    /\ app.pc = "fanout"
    /\ dc.op = "idle"
    /\ \/ app.ei > Len(app.events)
       \/ app.di = 1 /\ app.ei > 1 /\ exit_flag.val # None
    /\ app' = [app EXCEPT !.pc = "exit_check"]
    /\ UNCHANGED <<qvars, dvars, exit_status, since_set, offered, pvars>>

\* the end of the Ok arm (app.events keeps the batch of the tick until the
\* next get_events replaces it)
run_fanout_done ==
    /\ app.pc = "fanout"
    /\ dc.op = "idle"
    /\ app.ei > Len(app.events)
    /\ app' = [app EXCEPT !.pc = "exit_check"]
    /\ UNCHANGED <<qvars, dvars, exit_status, since_set, offered, pvars>>

\* faulty variant of status_of: the code of ERROR is ignored
status_of_zero(flag) == 0

\* the status exit() is called with for an ExitReason
status_of(flag) == IF flag.tag = "NORMAL" THEN 0 ELSE flag.code

\* mutant: the exit check records the status and lets the loop go on
run_exit_check_deferred ==
    /\ app.pc = "exit_check"
    /\ IF try_lock(exit_flag.lock) /\ exit_flag.val # None
       THEN /\ exit_flag' = [exit_flag EXCEPT !.val = None]
            /\ exit_status' = Some(status_of(exit_flag.val[1]))
       ELSE UNCHANGED <<exit_flag, exit_status>>
    /\ app' = [pc |-> "get_events", events |-> <<>>, ei |-> 0, di |-> 0,
                off0 |-> Len(offered)]
    /\ UNCHANGED <<qvars, dispatchers, dc, counter, invoked, since_set, offered, pvars>>

\* mutant: the exit check exits on an unset signal as well, with status 0
run_exit_check_unset_exits ==
    /\ app.pc = "exit_check"
    /\ IF try_lock(exit_flag.lock)
       THEN /\ exit_flag' = [exit_flag EXCEPT !.val = None]
            /\ exit_status' = Some(IF exit_flag.val = None THEN 0
                                   ELSE status_of(exit_flag.val[1]))
            /\ app' = [app EXCEPT !.pc = "terminated"]
       ELSE /\ app' = [pc |-> "get_events", events |-> <<>>, ei |-> 0, di |-> 0,
                        off0 |-> Len(offered)]
            /\ UNCHANGED <<exit_flag, exit_status>>
    /\ UNCHANGED <<qvars, dispatchers, dc, counter, invoked, since_set, offered, pvars>>

\* the exit check: try_lock, take(), exit
run_exit_check ==
    /\ app.pc = "exit_check"
    /\ IF try_lock(exit_flag.lock) /\ exit_flag.val # None
       THEN /\ exit_flag' = [exit_flag EXCEPT !.val = None]
            /\ exit_status' = Some(status_of(exit_flag.val[1]))
            /\ app' = [app EXCEPT !.pc = "terminated"]
       ELSE /\ app' = [pc |-> "get_events", events |-> <<>>, ei |-> 0, di |-> 0,
                        off0 |-> Len(offered)]
            /\ UNCHANGED <<exit_flag, exit_status>>
    /\ UNCHANGED <<qvars, dispatchers, dc, counter, invoked, since_set, offered, pvars>>

\* something else holds the exit signal's mutex, so that exit_flag.try_lock()
\* fails in the exit handler and in the exit check
lock_exit_flag ==
    /\ exit_flag.lock = "free"
    /\ exit_flag' = [exit_flag EXCEPT !.lock = "ext"]
    /\ UNCHANGED <<dispatchers, dc, counter, invoked>>

unlock_exit_flag ==
    /\ exit_flag.lock = "ext"
    /\ exit_flag' = [exit_flag EXCEPT !.lock = "free"]
    /\ UNCHANGED <<dispatchers, dc, counter, invoked>>

\* how many times the other thread takes a mutex of the Application
MaxHolds == 1

\* no mutex of the Application is held from outside its thread
NoneHeld ==
    /\ exit_flag.lock = "free"
    /\ \A d \in DOMAIN dispatchers : dispatchers[d].lock # "ext"

\* the other thread takes the handler-list mutex of dispatcher d
hold_handlers(d) ==
    /\ app.pc # "setup"
    /\ NoneHeld
    /\ holds < MaxHolds
    /\ lock_handlers(d)
    /\ holds' = holds + 1
    /\ UNCHANGED <<qvars, app, exit_status, since_set, offered, store, got, left>>

\* the other thread takes the exit signal's mutex
hold_exit_flag ==
    /\ app.pc # "setup"
    /\ NoneHeld
    /\ holds < MaxHolds
    /\ lock_exit_flag
    /\ holds' = holds + 1
    /\ UNCHANGED <<qvars, app, exit_status, since_set, offered, store, got, left>>

\* the process is alive: exit() has not been called (the thread inside run
\* stops by its own position, the other threads by this)
Alive == exit_status = None

\* ------------------------------------------------------------------------
\* DynamicStore on its own (event.rs)
\* ------------------------------------------------------------------------
\* the concrete types a payload is built from or asked for
Types == {"ExitReason", "Vec<i128>", "i32", "String"}

\* the values of each type the stores are built from
ValuesOf(T) ==
    CASE T = "ExitReason" -> {NORMAL, ERROR(1), ERROR(42)}
      [] T = "Vec<i128>" -> {<<x, y>> : x, y \in 0..2}
      [] T = "i32" -> 0..6
      [] T = "String" -> {"Exit", "ExampleEvent", "Test Event"}

\* DynamicStore::new(Box::new(v)) for every v
Stores == UNION {{DynamicStore(T, v) : v \in ValuesOf(T)} : T \in Types}

\* no store under test
PInit ==
    /\ store = DynamicStore("none", 0)
    /\ got = [T \in Types |-> [asked |-> FALSE, res |-> None]]
    /\ holds = 0
    /\ left = [c \in Consumers |-> <<>>]

\* a payload container built from some value of some type
StoreInit ==
    /\ QInit /\ DInit /\ AInit
    /\ store \in Stores
    /\ got = [T \in Types |-> [asked |-> FALSE, res |-> None]]
    /\ holds = 0
    /\ left = [c \in Consumers |-> <<>>]

\* store.get_ref::<T>()
call_get_ref(T) ==
    /\ got' = [got EXCEPT ![T] = [asked |-> TRUE, res |-> get_ref(store, T)]]
    /\ UNCHANGED <<store, holds, left>>

\* ------------------------------------------------------------------------
\* Specifications
\* ------------------------------------------------------------------------
\* a fresh EventQueue, no dispatcher yet, a default Application
Init == QInit /\ DInit /\ AInit /\ PInit

QNext ==
    \/ \E p \in Producers, e \in QueueEvents : emit(p, e) /\ UNCHANGED <<dvars, avars>>
    \/ \E c \in Consumers : get_events_try_lock(c) /\ UNCHANGED <<dvars, avars>>
    \/ \E c \in Consumers : get_events_try_recv(c) /\ UNCHANGED <<dvars, avars>>
    \/ lock_reciever /\ UNCHANGED <<dvars, avars>>
    \/ unlock_reciever /\ UNCHANGED <<dvars, avars>>
    \/ replace_sender /\ UNCHANGED <<dvars, avars>>

\* the queue alone: producers, two consumers, the tests' interventions
SpecQueue == Init /\ [][QNext]_vars

FetchNext ==
    \/ \E p \in AppProducers, e \in QueueEvents : emit(p, e) /\ UNCHANGED <<dvars, avars>>
    \/ \E c \in Consumers :
          /\ queue_get_events(c)
          /\ UNCHANGED <<dvars, app, exit_status, since_set, offered, store, got, holds>>
    \/ \E c \in Consumers : get_events_try_recv(c) /\ UNCHANGED <<dvars, avars>>
    \/ lock_reciever /\ UNCHANGED <<dvars, avars>>
    \/ unlock_reciever /\ UNCHANGED <<dvars, avars>>

\* the queue with one producer, two consumers and the receiver lock taken from
\* outside, with what each failed get_events left in the channel noted
SpecFetch == Init /\ [][FetchNext]_vars

DNext ==
    \/ \E n \in TestNames : new_dispatcher(n) /\ UNCHANGED <<qvars, avars>>
    \/ \E cb \in TestCallbacks : add_handlers_call(1, cb) /\ UNCHANGED <<qvars, avars>>
    \/ add_handlers_try_lock /\ UNCHANGED <<qvars, avars>>
    \/ \E ev \in TestEvents :
          /\ 1 \in DOMAIN dispatchers
          /\ Len(invoked) + Len(dispatchers[1].handlers) <= MaxInvoked
          /\ dispatch_call(1, ev)
          /\ UNCHANGED <<qvars, avars>>
    \/ dispatch_try_lock /\ UNCHANGED <<qvars, avars>>
    \/ dispatch_invoke /\ UNCHANGED <<qvars, avars>>
    \/ dispatch_return /\ UNCHANGED <<qvars, avars>>
    \/ lock_handlers(1) /\ UNCHANGED <<qvars, avars>>
    \/ unlock_handlers(1) /\ UNCHANGED <<qvars, avars>>

\* one dispatcher driven as the tests drive it
SpecDispatcher == Init /\ [][DNext]_vars

Next ==
    \/ Alive /\ \E p \in AppProducers, e \in AppEvents : emit(p, e) /\ UNCHANGED <<dvars, avars>>
    \/ Alive /\ get_events_try_lock("aux") /\ UNCHANGED <<dvars, avars>>
    \/ Alive /\ get_events_try_recv("aux") /\ UNCHANGED <<dvars, avars>>
    \/ \E n \in AppNames, cb \in UserCallbacks : register(n, cb) /\ UNCHANGED qvars
    \/ initalize /\ UNCHANGED qvars
    \/ run_get_events
    \/ run_drain
    \/ run_dispatch
    \/ run_dispatch_try_lock
    \/ run_dispatch_invoke
    \/ run_dispatch_return
    \/ run_fanout_done
    \/ run_exit_check

\* the Application's process: producers, the tick loop, a second consumer
Spec == Init /\ [][Next]_vars

\* the events emitted while a mutex is held from outside
ContendedEvents == {ExampleEvent, Exit(NORMAL)}

\* the event names registered for while a mutex is held from outside
ContendedNames == {"ExampleEvent"}

NextContended ==
    \/ Alive /\ \E p \in AppProducers, e \in ContendedEvents : emit(p, e) /\ UNCHANGED <<dvars, avars>>
    \/ \E n \in ContendedNames, cb \in UserCallbacks : register(n, cb) /\ UNCHANGED qvars
    \/ initalize /\ UNCHANGED qvars
    \/ run_get_events
    \/ run_drain
    \/ run_dispatch
    \/ run_dispatch_try_lock
    \/ run_dispatch_invoke
    \/ run_dispatch_return
    \/ run_fanout_done
    \/ run_exit_check
    \/ \E d \in DOMAIN dispatchers : Alive /\ hold_handlers(d)
    \/ \E d \in DOMAIN dispatchers : Alive /\ unlock_handlers(d) /\ UNCHANGED <<qvars, avars>>
    \/ Alive /\ hold_exit_flag
    \/ Alive /\ unlock_exit_flag /\ UNCHANGED <<qvars, avars>>

\* the Application with its try_lock failure paths exercised: one other thread
\* that holds, one at a time, a dispatcher's handler-list mutex or the exit
\* signal's mutex
SpecContended == Init /\ [][NextContended]_vars

StoreNext ==
    \E T \in Types :
        call_get_ref(T) /\ UNCHANGED <<qvars, dvars, app, exit_status, since_set, offered>>

\* a DynamicStore and the get_ref calls on it
SpecStore == StoreInit /\ [][StoreNext]_vars

\* one step of the thread inside Application::run's loop
Tick ==
    \/ run_get_events
    \/ run_drain
    \/ run_dispatch
    \/ run_dispatch_try_lock
    \/ run_dispatch_invoke
    \/ run_dispatch_return
    \/ run_fanout_done
    \/ run_exit_check

NextLive ==
    \/ Alive /\ \E p \in AppProducers, e \in AppEvents : emit(p, e) /\ UNCHANGED <<dvars, avars>>
    \/ \E n \in AppNames, cb \in UserCallbacks : register(n, cb) /\ UNCHANGED qvars
    \/ initalize /\ UNCHANGED qvars
    \/ run_get_events
    \/ run_drain
    \/ run_dispatch
    \/ run_dispatch_try_lock
    \/ run_dispatch_invoke
    \/ run_dispatch_return
    \/ run_fanout_done
    \/ run_exit_check

\* the Application as the only consumer of the queue, with run called and its
\* thread always scheduled again: lib.rs calls app.run() right after
\* Application::default(), and the loop of run has no blocking call (try_lock,
\* try_recv), so a step of it stays enabled until it is taken
SpecLive ==
    /\ Init
    /\ [][NextLive]_vars
    /\ WF_vars(initalize /\ UNCHANGED qvars)
    /\ WF_vars(Tick)

\* ------------------------------------------------------------------------
\* Properties
\* ------------------------------------------------------------------------
\* the events of evs that producer p emitted, in the order of evs
Project(evs, p) == SelectSeq(evs, LAMBDA e : e.src = p)

\* consumer c's last get_events returned Ok, no emit happened since it was
\* called and no get_events had returned events before it
SingleDrainAfterEmits(c) ==
    /\ gq[c].res.tag = "Ok"
    /\ gq[c].sent0 = TotalSent
    /\ delivered = gq[c].res.val

\* C1: emits from several producers followed by one successful get_events:
\* the Vec returned holds exactly the emitted events, none lost, duplicated or
\* invented, and each producer's events in the order that producer emitted them.
C1_DrainReturnsEmitted ==
    \A c \in Consumers :
        SingleDrainAfterEmits(c) =>
            /\ Len(gq[c].res.val) = TotalSent
            /\ \A p \in Producers : Project(gq[c].res.val, p) = emitted[p]

\* both producers emitted, interleaved, and one get_events returned it all
C1_Witness ==
    \E c \in Consumers :
        /\ SingleDrainAfterEmits(c)
        /\ Len(gq[c].res.val) >= 3
        /\ gq[c].res.val[1].src # gq[c].res.val[2].src
        /\ \A p \in Producers : Len(emitted[p]) >= 1

\* C2: get_events never returns Ok with an empty Vec, and a call that took
\* the lock and received nothing returns EmptyQueue.
C2_NeverEmptyOk ==
    [][\A c \in Consumers :
          /\ gq'[c].res.tag = "Ok" => gq'[c].res.val # <<>>
          /\ (gq[c].pc = "recv" /\ gq'[c].pc = "idle" /\ gq[c].events = <<>>)
                => gq'[c].res = EmptyQueue]_vars

\* a get_events that held the lock returned EmptyQueue
C2_Witness == \E c \in Consumers : gq[c].res = EmptyQueue /\ gq[c].pc = "idle"

\* C3: a dispatcher invokes handlers only for events of its own name; for an
\* event of another name dispatch invokes nothing and returns Ok(false).
C3_OnlyMatchingNameInvokes ==
    /\ \A k \in DOMAIN invoked :
          dispatchers[invoked[k].d].event_name = get_name(invoked[k].ev)
    /\ (dc.last = "dispatch" /\ dispatchers[dc.d].event_name # get_name(dc.ev[1]))
          => /\ dc.op = "idle"
             /\ dc.res = Ok(<<FALSE>>)
             /\ Len(invoked) = dc.inv0

\* dispatch of an event of another name on a dispatcher that has handlers
C3_Witness ==
    /\ dc.last = "dispatch"
    /\ dc.res = Ok(<<FALSE>>)
    /\ get_name(dc.ev[1]) = "Some other event"
    /\ Len(dispatchers[dc.d].handlers) >= 2

\* the invocations one dispatch of ev on dispatcher d with handlers hs makes
Expected(d, hs, ev) == [i \in 1..Len(hs) |-> [d |-> d, h |-> i, cb |-> hs[i], ev |-> ev]]

\* the invocations made since the call in progress (or the last call) began
SinceCall == SubSeq(invoked, dc.inv0 + 1, Len(invoked))

\* the sum of what the invocations in s added
RECURSIVE Added(_)
Added(s) == IF s = <<>> THEN 0 ELSE Head(s).cb.k + Added(Tail(s))

\* C4: a dispatch of a matching event that gets the lock invokes every
\* registered handler exactly once, in registration order, and returns
\* Ok(true); the counter grows by the sum of what the handlers add.
C4_AllHandlersOnceInOrder ==
    /\ (dc.last = "dispatch" /\ dc.op = "idle" /\ dc.res = Ok(<<TRUE>>))
          => /\ SinceCall = Expected(dc.d, dispatchers[dc.d].handlers, dc.ev[1])
             /\ dispatchers[dc.d].handlers = dc.h0
    /\ dc.op = "for_each"
          => SinceCall = SubSeq(Expected(dc.d, dc.h0, dc.ev[1]), 1, dc.i - 1)
    /\ (dc.last = "dispatch" /\ dc.op = "idle" /\ dc.attempts \in 1..4)
          => dc.res = Ok(<<TRUE>>)
    /\ counter = Added(invoked) % 256

\* handlers adding 1, 2, 3, dispatched once: the counter is 6
C4_Witness ==
    /\ dc.last = "dispatch" /\ dc.op = "idle" /\ dc.res = Ok(<<TRUE>>)
    /\ dispatchers[dc.d].handlers = <<cb_add(1), cb_add(2), cb_add(3)>>
    /\ Len(invoked) = 3
    /\ counter = 6

\* C5: add_handlers never makes more than 5 try_lock attempts; it returns
\* UnableToAddHandler after exactly 5 failed ones, leaving the list as it was,
\* and when it returns Ok the callback is the new last element of the list.
C5_AddHandlersBoundedRetry ==
    /\ dc.attempts <= 5
    /\ (dc.last = "add_handlers" /\ dc.op = "idle" /\ dc.res = UnableToAddHandler)
          => /\ dc.attempts = 5
             /\ dispatchers[dc.d].handlers = dc.h0
    /\ (dc.last = "add_handlers" /\ dc.op = "idle" /\ dc.res # UnableToAddHandler)
          => /\ dc.res = Ok(<<>>)
             /\ dispatchers[dc.d].handlers = Append(dc.h0, dc.cb)

\* add_handlers gave up while the list was locked from outside
C5_Witness ==
    /\ dc.last = "add_handlers" /\ dc.op = "idle"
    /\ dc.res = UnableToAddHandler
    /\ dispatchers[dc.d].lock = "ext"

\* the events of the current batch whose fan-out to every dispatcher is over
Dispatched ==
    IF app.pc \in {"fanout", "exit_check"} /\ dc.op = "idle"
    THEN SubSeq(app.events, 1, app.ei - 1)
    ELSE <<>>

\* the Exit events among evs
Exits(evs) == SelectSeq(evs, LAMBDA e : e.kind = "Exit")

\* C6: once the Application has drained an Exit event carrying reason r and
\* dispatched it, the exit signal holds exactly r (the reason of the latest
\* such event), until the exit check takes it.
C6_ExitSignalHoldsReason ==
    Exits(Dispatched) # <<>> =>
        LET last == Exits(Dispatched)[Len(Exits(Dispatched))]
        IN exit_flag.val = <<last.args[1]>>

\* Exit(ERROR(42)) was drained and dispatched; the exit check has not run yet
C6_Witness ==
    /\ app.pc = "exit_check"
    /\ Exits(Dispatched) # <<>>
    /\ exit_flag.val = <<[tag |-> "ERROR", code |-> 42]>>

\* C7: the Application leaves Running only at an exit check that finds a
\* reason in the exit signal; the status is 0 for NORMAL and the carried code
\* for ERROR(code); once Terminated nothing runs any more.
C7_TerminationOnlyAtExitCheck ==
    [][/\ (app.pc # "terminated" /\ app'.pc = "terminated")
             => /\ app.pc = "exit_check"
                /\ exit_flag.val # <<>>
                /\ exit_flag.val[1].tag = "NORMAL" => exit_status' = <<0>>
                /\ exit_flag.val[1].tag = "ERROR"
                      => exit_status' = <<exit_flag.val[1].code>>
       /\ (exit_status # exit_status') => (app.pc # "terminated" /\ app'.pc = "terminated")
       /\ app.pc = "terminated" => vars' = vars]_vars

\* the process ended with status 42
C7_Witness == app.pc = "terminated" /\ exit_status = <<42>>

\* C8 as stated: the process ends at the exit check of the tick after the
\* one whose fan-out stored the reason.
C8_Original_FollowingTick == exit_status # <<>> => since_set = 1

\* C8: the process ends at the exit check of the very tick whose fan-out
\* stored the reason: no tick starts while the exit signal holds a reason.
C8_SameTickExit ==
    /\ since_set = 0
    /\ exit_flag.val # <<>> => app.pc \in {"fanout", "exit_check"}
    /\ exit_status # <<>> => Exits(app.events) # <<>>

\* the process ended, the batch of its last tick held two events
C8_Witness == exit_status # <<>> /\ Len(app.events) = 2

\* no two events of evs are the same box
NoDuplicates(evs) ==
    \A i, j \in DOMAIN evs : i # j => <<evs[i].src, evs[i].seq>> # <<evs[j].src, evs[j].seq>>

\* C9: get_events tries the lock once: called while the lock is held it
\* returns UnableToFetchEventsFromQueue in that step and takes nothing from the
\* channel; two calls never read the channel at once and no event is returned
\* twice.
C9_SingleTryLock ==
    /\ [](/\ \A c \in Consumers : gq[c].pc = "recv" => reciever = c
          /\ NoDuplicates(delivered))
    /\ [][\A c \in Consumers :
            (gq[c].pc = "idle" /\ gq'[c] # gq[c] /\ reciever # "free")
               => /\ gq'[c].pc = "idle"
                  /\ gq'[c].res = UnableToFetchEventsFromQueue
                  /\ channel' = channel
                  /\ reciever' = reciever]_vars

\* a get_events failed on the lock while the other consumer was reading and
\* events were pending
C9_Witness ==
    \E c, o \in Consumers :
        /\ c # o
        /\ gq[c].res = UnableToFetchEventsFromQueue
        /\ gq[o].pc = "recv"
        /\ channel # <<>>

\* C10: emit returns UnableToEmitToEventQueue with the rejected event, and
\* queues nothing, exactly when the sender's channel has no Receiver;
\* otherwise it returns Ok and the event is the new last element of the channel.
C10_EmitFailsIffNoReceiver ==
    [][\A p \in Producers :
          prod'[p] # prod[p] =>
             IF sender_live
             THEN /\ prod'[p].res = Ok(<<>>)
                  /\ Len(channel') = Len(channel) + 1
                  /\ SubSeq(channel', 1, Len(channel)) = channel
                  /\ channel'[Len(channel')].src = p
                  /\ channel'[Len(channel')].seq = prod'[p].calls
             ELSE /\ prod'[p].res.tag = "UnableToEmitToEventQueue"
                  /\ prod'[p].res.val[1].src = p
                  /\ prod'[p].res.val[1].seq = prod'[p].calls
                  /\ channel' = channel
                  /\ emitted' = emitted]_vars

\* an emit was rejected after an earlier one had been accepted
C10_Witness ==
    \E p \in Producers :
        /\ prod[p].res.tag = "UnableToEmitToEventQueue"
        /\ Len(emitted[p]) = 1

\* event e was emitted by a producer and accepted by the queue
WasEmitted(e) == \E p \in Producers : \E i \in DOMAIN emitted[p] : emitted[p][i] = e

\* event e was returned by a drain
WasDrained(e) == \E i \in DOMAIN delivered : delivered[i] = e

\* the invocations of the internal exit handler on an Exit event with a reason
ExitHandled ==
    {k \in DOMAIN invoked :
        /\ invoked[k].cb = cb_exit
        /\ get_name(invoked[k].ev) = "Exit"
        /\ get_ref(get_data(invoked[k].ev)[1], "ExitReason") # None}

\* C11: the tick loop halts only through an Exit event routed through the
\* queue: whenever the Application is Terminated, an event named Exit that
\* carries a termination reason was emitted, drained and dispatched to the
\* internal exit handler before, and the process status is that reason's;
\* with no such event the Application is still Running.
C11_HaltOnlyByExitEvent ==
    exit_status # None =>
        \E k \in ExitHandled :
            /\ WasEmitted(invoked[k].ev)
            /\ WasDrained(invoked[k].ev)
            /\ exit_status = Some(status_of(invoked[k].ev.args[1]))

\* the Application is Terminated after a tick that dispatched an Exit event
\* and an ExampleEvent
C11_Witness ==
    /\ app.pc = "terminated"
    /\ ExitHandled # {}
    /\ \E k \in DOMAIN invoked : get_name(invoked[k].ev) = "ExampleEvent"

\* an Exit event carrying a termination reason was accepted by the queue
ExitEmitted ==
    \E p \in Producers : \E i \in DOMAIN emitted[p] :
        /\ get_name(emitted[p][i]) = "Exit"
        /\ get_ref(get_data(emitted[p][i])[1], "ExitReason") # None

\* C12: with the Application the queue's only consumer, every handler
\* returning and the tick loop scheduled again and again, an Exit event with a
\* termination reason emitted while the Application is Running leads to the
\* Application being Terminated.
C12_ExitLeadsToTerminated == ExitEmitted ~> (app.pc = "terminated")

\* Exit(NORMAL) was emitted after an ExampleEvent and the process has exited
\* with status 0
C12_Witness ==
    /\ exit_status = Some(0)
    /\ \E p \in Producers :
          /\ Len(emitted[p]) = 2
          /\ get_name(emitted[p][1]) = "ExampleEvent"
          /\ get_name(emitted[p][2]) = "Exit"

\* the queue-side error outcomes of get_events
QueueError(res) == res.tag \in {"EmptyQueue", "UnableToFetchEventsFromQueue"}

\* C13: when the tick's get_events returns EmptyQueue or
\* UnableToFetchEventsFromQueue, the tick dispatches nothing and goes to its
\* exit check with the Application Running; that exit check dispatches nothing
\* either and, the exit signal being unset, starts the next tick (with the
\* signal set it exits as after any other tick).
C13_QueueErrorsAbsorbed ==
    [][/\ (/\ app.pc \in {"get_events", "drain"}
           /\ app' # app
           /\ gq'["app"].pc = "idle"
           /\ QueueError(gq'["app"].res))
          => /\ app'.pc = "exit_check"
             /\ app'.events = <<>>
             /\ UNCHANGED <<invoked, offered, dc, exit_flag, exit_status>>
       /\ (/\ app.pc = "exit_check"
           /\ QueueError(gq["app"].res)
           /\ app' # app)
          => /\ UNCHANGED <<invoked, offered, dc>>
             /\ IF exit_flag.val = None
                THEN app'.pc = "get_events" /\ exit_status' = None
                ELSE app'.pc = "terminated"]_vars

\* a tick found the receiver locked by the other consumer while an event was
\* queued, after an earlier tick had dispatched an event
C13_Witness ==
    /\ app.pc = "exit_check"
    /\ gq["app"].res = UnableToFetchEventsFromQueue
    /\ channel # <<>>
    /\ offered # <<>>

\* the calls dispatcher.dispatch(event) of a tick over events evs with n
\* dispatchers: each event in turn, for each event every dispatcher in turn
FanOut(evs, n) ==
    [k \in 1..(Len(evs) * n) |-> [ev |-> evs[((k - 1) \div n) + 1], d |-> ((k - 1) % n) + 1]]

\* the dispatch calls the Application has made in the current tick
TickOffers == SubSeq(offered, app.off0 + 1, Len(offered))

\* C14: in a tick whose drain returned events, the calls dispatcher.dispatch
\* made so far are a prefix of: every drained event in drained order, each
\* offered to every dispatcher in registration order; when the fan-out is over
\* all of them have been made and have returned, whether or not some returned
\* an error.
C14_FanOutCompleteDespiteErrors ==
    app.pc \in {"fanout", "exit_check", "terminated"} =>
        LET full == FanOut(app.events, Len(dispatchers))
            made == [k \in DOMAIN TickOffers |-> [ev |-> TickOffers[k].ev, d |-> TickOffers[k].d]]
        IN /\ Len(made) <= Len(full)
           /\ made = SubSeq(full, 1, Len(made))
           /\ app.pc # "fanout" =>
                 /\ Len(made) = Len(full)
                 /\ \A k \in DOMAIN TickOffers : TickOffers[k].res \in {"Ok", "Err"}

\* the fan-out of a batch of two events is over; the first dispatcher returned
\* an error for the first event, and the calls after it were made and succeeded
C14_Witness ==
    /\ app.pc = "exit_check"
    /\ Len(app.events) = 2
    /\ Len(TickOffers) = 2 * Len(dispatchers)
    /\ TickOffers[1].res = "Err"
    /\ \A k \in 2..Len(TickOffers) : TickOffers[k].res = "Ok"

\* event e was passed to some dispatcher or to some handler
WasOffered(e) ==
    \/ \E k \in DOMAIN offered : offered[k].ev = e
    \/ \E k \in DOMAIN invoked : invoked[k].ev = e

\* C15: the exit check that observes the exit signal set terminates the
\* process in that very step, dispatching nothing; from then on no dispatcher
\* is called, no handler is invoked, nothing is drained and no tick starts, so
\* the events still queued at that moment are never dispatched.
C15_ExitBypassesQueuedEvents ==
    /\ [](exit_status # None =>
            \A i \in DOMAIN channel : ~WasOffered(channel[i]))
    /\ [][(exit_status = None /\ exit_status' # None) =>
            /\ app.pc = "exit_check"
            /\ exit_flag.val # None
            /\ app'.pc = "terminated"
            /\ UNCHANGED <<invoked, offered, channel, delivered>>]_vars
    /\ [][exit_status # None =>
            UNCHANGED <<app, gq, invoked, offered, channel, delivered, dc>>]_vars

\* the process has exited while an event emitted after the drained Exit event
\* is still in the channel
C15_Witness ==
    /\ exit_status # None
    /\ channel # <<>>
    /\ \A i \in DOMAIN channel : WasEmitted(channel[i]) /\ ~WasOffered(channel[i])

\* the dispatchers registered for the name of event e, in registration order
Matching(e) ==
    SelectSeq([d \in DOMAIN dispatchers |-> d],
              LAMBDA d : dispatchers[d].event_name = get_name(e))

\* the handler invocations made for event e
InvokedFor(e) == SelectSeq(invoked, LAMBDA x : x.ev = e)

\* C16: every dispatcher of the Application holds exactly one handler; a
\* registration appends exactly one dispatcher, with the registered handler,
\* and leaves the earlier ones as they were (so two registrations for one name
\* are two dispatchers); an event whose fan-out is over has invoked the
\* handler of each dispatcher registered for its name once, in registration
\* order, and nothing else.
C16_OneDispatcherPerRegistration ==
    /\ [](/\ \A d \in DOMAIN dispatchers : Len(dispatchers[d].handlers) = 1
          /\ \A j \in DOMAIN Dispatched :
                LET e == Dispatched[j]
                    m == Matching(e)
                IN InvokedFor(e) =
                     [k \in DOMAIN m |->
                        [d |-> m[k], h |-> 1, cb |-> dispatchers[m[k]].handlers[1], ev |-> e]])
    /\ [][dispatchers' # dispatchers /\ app.pc = "setup" =>
            /\ Len(dispatchers') = Len(dispatchers) + 1
            /\ SubSeq(dispatchers', 1, Len(dispatchers)) = dispatchers
            /\ Len(dispatchers'[Len(dispatchers')].handlers) = 1]_vars

\* two registrations for ExampleEvent; a dispatched ExampleEvent has invoked
\* the handler of the first dispatcher and then the handler of the second
C16_Witness ==
    /\ Len(dispatchers) = 3
    /\ dispatchers[1].event_name = "ExampleEvent"
    /\ dispatchers[2].event_name = "ExampleEvent"
    /\ \E j \in DOMAIN Dispatched :
          /\ get_name(Dispatched[j]) = "ExampleEvent"
          /\ Len(InvokedFor(Dispatched[j])) = 2
          /\ InvokedFor(Dispatched[j])[1].d = 1
          /\ InvokedFor(Dispatched[j])[2].d = 2

\* C17: no event is returned by two drains; every dispatcher call of the
\* current tick is for an event of the batch this tick drained and no earlier
\* call was; no event is offered twice to the same dispatcher; when the
\* fan-out of the tick is over every event of its batch has been offered to
\* every dispatcher, and the batch is dropped when the next tick starts.
C17_DispatchedWithinItsTick ==
    /\ [](/\ NoDuplicates(delivered)
          /\ \A k \in DOMAIN offered :
                (k > app.off0) <=> (\E j \in DOMAIN app.events : app.events[j] = offered[k].ev)
          /\ \A k, l \in DOMAIN offered :
                (k # l /\ offered[k].ev = offered[l].ev) => offered[k].d # offered[l].d
          /\ app.pc \in {"exit_check", "terminated"} =>
                \A j \in DOMAIN app.events : \A d \in DOMAIN dispatchers :
                    \E k \in DOMAIN TickOffers :
                        TickOffers[k].ev = app.events[j] /\ TickOffers[k].d = d)
    /\ [][app.pc = "exit_check" /\ app'.pc = "get_events" =>
            app'.events = <<>> /\ app'.off0 = Len(offered)]_vars

\* a second tick is dispatching the event it drained, after an earlier tick
\* drained and dispatched another event
C17_Witness ==
    /\ app.pc = "fanout"
    /\ app.off0 > 0
    /\ Len(offered) > app.off0
    /\ Len(app.events) = 1
    /\ Len(delivered) = 2

\* C18: on a payload container built from value v of type T, get_ref::<T>()
\* yields Some(v) and get_ref::<U>() yields None for every other type U; a
\* call yields nothing but Some or None, and the stored value stays what it
\* was built from.
C18_GetRefByType ==
    /\ [](/\ store \in Stores
          /\ \A T \in Types :
                got[T].asked =>
                   IF T = store.type THEN got[T].res = Some(store.value)
                                     ELSE got[T].res = None)
    /\ [][got' # got => store' = store]_vars

\* a container built from ERROR(42): asked for an ExitReason it gave the
\* value, asked for an i32 and for a String it gave None
C18_Witness ==
    /\ store = DynamicStore("ExitReason", ERROR(42))
    /\ got["ExitReason"] = [asked |-> TRUE, res |-> Some(ERROR(42))]
    /\ got["i32"] = [asked |-> TRUE, res |-> None]
    /\ got["String"] = [asked |-> TRUE, res |-> None]

\* C19: a dispatch of a matching event that finds the handler-list lock held
\* makes one more attempt or, on the fifth failed attempt, returns an error
\* that is neither Ok(true) nor Ok(false), with no handler invoked since the
\* call; it never makes a sixth attempt. A dispatch of a non-matching event
\* returns Ok(false) having made no attempt at the lock.
C19_DispatchBoundedRetry ==
    /\ [](/\ (dc.last = "dispatch" /\ dc.op = "idle" /\ dc.res = UnableToAddHandler)
                => /\ dc.attempts = RetryLimit + 1
                   /\ name_matches(dispatchers[dc.d], dc.ev[1])
                   /\ Len(invoked) = dc.inv0
                   /\ dc.res \notin {Ok(<<TRUE>>), Ok(<<FALSE>>)}
          /\ (dc.last = "dispatch" /\ ~name_matches(dispatchers[dc.d], dc.ev[1]))
                => /\ dc.op = "idle"
                   /\ dc.res = Ok(<<FALSE>>)
                   /\ dc.attempts = 0)
    /\ [][(/\ dc.op = "dispatch"
           /\ dc' # dc
           /\ dispatchers[dc.d].lock # "free")
            => /\ invoked' = invoked
               /\ dc'.attempts = dc.attempts + 1
               /\ IF dc.attempts = RetryLimit
                  THEN dc'.op = "idle" /\ dc'.res = UnableToAddHandler
                  ELSE dc'.op = "dispatch"]_vars

\* a dispatch of a matching event on a dispatcher with two handlers gave up
\* while the list was locked from outside
C19_Witness ==
    /\ dc.last = "dispatch" /\ dc.op = "idle"
    /\ dc.res = UnableToAddHandler
    /\ dispatchers[dc.d].lock = "ext"
    /\ Len(dispatchers[dc.d].handlers) = 2
    /\ dc.attempts = 5

\* C20: when the exit handler is invoked for an Exit event while the exit
\* signal's lock is held elsewhere, the invocation completes in that step and
\* leaves the signal and the running process as they were; when it finds the
\* lock free it stores the event's reason in the signal. An exit check that
\* finds the signal unset starts the next tick.
C20_ExitHandlerBestEffort ==
    /\ [][(/\ Len(invoked') = Len(invoked) + 1
           /\ invoked'[Len(invoked')].cb = cb_exit)
            => LET ev == invoked'[Len(invoked')].ev
               IN /\ dc'.i = dc.i + 1
                  /\ exit_status' = None
                  /\ app'.pc = "fanout"
                  /\ IF exit_flag.lock # "free"
                     THEN exit_flag' = exit_flag
                     ELSE exit_flag' = [exit_flag EXCEPT !.val = Some(ev.args[1])]]_vars
    /\ [][(app.pc = "exit_check" /\ app' # app /\ exit_flag.val = None)
            => app'.pc = "get_events" /\ exit_status' = None]_vars

\* an Exit event was handled in an earlier tick while the lock was held and
\* left the signal unset; the lock is free again and the current tick is about
\* to dispatch a second Exit event
C20_Witness ==
    /\ app.pc = "fanout"
    /\ app.ei = 1 /\ app.di = 1
    /\ get_name(app.events[1]) = "Exit"
    /\ exit_flag = [val |-> None, lock |-> "free"]
    /\ holds = 1
    /\ \E k \in ExitHandled :
          \E j \in 1..app.off0 : offered[j].ev = invoked[k].ev

\* event e has been offered to every dispatcher and has invoked the handler
\* of each dispatcher registered for its name, once, in registration order
FullyDispatched(e) ==
    /\ \A d \in DOMAIN dispatchers :
          \E k \in DOMAIN offered : offered[k].ev = e /\ offered[k].d = d /\ offered[k].res = "Ok"
    /\ LET m == Matching(e)
       IN InvokedFor(e) =
            [k \in DOMAIN m |->
               [d |-> m[k], h |-> 1, cb |-> dispatchers[m[k]].handlers[1], ev |-> e]]

\* event e is still in the channel
Pending(e) == \E i \in DOMAIN channel : channel[i] = e

\* C21: the exit check is made only when the fan-out of the whole drained
\* batch is over; when the process has exited, every event of the batch that
\* held the Exit event, those after the Exit event included, has been
\* dispatched to every matching handler, and the emitted events that were
\* never dispatched are exactly those still in the channel.
C21_WholeBatchBeforeExit ==
    /\ [](exit_status # None =>
            /\ Exits(app.events) # <<>>
            /\ \A j \in DOMAIN app.events : FullyDispatched(app.events[j])
            /\ \A p \in Producers : \A i \in DOMAIN emitted[p] :
                  IF Pending(emitted[p][i])
                  THEN ~WasOffered(emitted[p][i])
                  ELSE FullyDispatched(emitted[p][i]))
    /\ [][(app.pc = "exit_check" /\ app' # app) =>
            /\ dc.op = "idle"
            /\ Len(TickOffers) = Len(app.events) * Len(dispatchers)]_vars

\* the process has exited after a tick whose batch was an Exit event followed
\* by an ExampleEvent, and the ExampleEvent has invoked a registered handler
C21_Witness ==
    /\ exit_status # None
    /\ Len(app.events) = 2
    /\ get_name(app.events[1]) = "Exit"
    /\ get_name(app.events[2]) = "ExampleEvent"
    /\ InvokedFor(app.events[2]) # <<>>

\* C22: every invocation of the exit handler for an Exit event replaces
\* whatever the exit signal held by that event's reason, and the status the
\* process exits with is that of the last Exit event of the tick's batch, in
\* queue order.
C22_LastExitDecidesStatus ==
    /\ [](exit_status # None =>
            LET exits == Exits(app.events)
            IN /\ exits # <<>>
               /\ exit_status = Some(status_of(exits[Len(exits)].args[1])))
    /\ [][(/\ Len(invoked') = Len(invoked) + 1
           /\ invoked'[Len(invoked')].cb = cb_exit)
            => exit_flag'.val = Some(invoked'[Len(invoked')].ev.args[1])]_vars

\* one batch held Exit(NORMAL) and then Exit(ERROR(42)): the process exited
\* with status 42
C22_Witness ==
    /\ exit_status = Some(42)
    /\ Len(app.events) = 2
    /\ app.events[1].kind = "Exit" /\ app.events[1].args[1] = NORMAL
    /\ app.events[2].kind = "Exit" /\ app.events[2].args[1] = ERROR(42)

\* sequence part occurs in sequence whole, contiguous and in order
IsSegment(part, whole) ==
    \E i \in 0..(Len(whole) - Len(part)) : SubSeq(whole, i + 1, i + Len(part)) = part

\* the events the holder of the receiver lock has taken so far, then the channel
Undelivered ==
    (IF reciever \in Consumers THEN gq[reciever].events ELSE <<>>) \o channel

\* C23: a get_events that returns UnableToFetchEventsFromQueue leaves the
\* channel and the delivered events as they were; the events it left pending
\* stay pending, together and in their order, until one successful drain
\* returns all of them, together and in that order, the events emitted since
\* after them.
C23_FailedFetchRemovesNothing ==
    /\ [](\A c \in Consumers :
             \/ IsSegment(left[c], Undelivered)
             \/ IsSegment(left[c], delivered))
    /\ [][\A c \in Consumers :
            (gq[c].pc = "idle" /\ gq'[c].res = UnableToFetchEventsFromQueue
                               /\ <<gq'[c], left'[c]>> # <<gq[c], left[c]>>)
               => /\ channel' = channel
                  /\ delivered' = delivered
                  /\ left'[c] = channel]_vars
    /\ [][\A o \in Consumers :
            (gq[o].pc = "recv" /\ gq'[o].pc = "idle")
               => /\ channel = <<>>
                  /\ \A c \in Consumers :
                        IsSegment(left[c], Undelivered) /\ left[c] # <<>>
                           => /\ gq'[o].res.tag = "Ok"
                              /\ IsSegment(left[c], gq'[o].res.val)]_vars

\* a get_events failed on the lock with one event pending; the same
\* consumer's next get_events returned that event and then one emitted after
\* the failure
C23_Witness ==
    \E c \in Consumers :
        /\ Len(left[c]) = 1
        /\ gq[c].res.tag = "Ok"
        /\ Len(gq[c].res.val) = 2
        /\ SubSeq(gq[c].res.val, 1, 1) = left[c]
        /\ delivered = gq[c].res.val

====
